---------------------------- MODULE Spec2Model ----------------------------
(***************************************************************************)
(* Listing lifecycle of the waste_to_treasure backend                      *)
(* (app/services/listing_service.py): the persistent store of listings,    *)
(* the five operations of ListingService and the values each returns or    *)
(* the HTTPException it raises.                                            *)
(*                                                                         *)
(* Every handler is an operator from the store and the request to the      *)
(* outcome (the exception raised or "ok") and the store it leaves; the     *)
(* action of the same handler applies that operator to the current store.  *)
(* A handler that raises commits nothing: the store it leaves is the one   *)
(* it found.                                                               *)
(*                                                                         *)
(* upload_listing_images is also modelled step by step (BeginUpload,       *)
(* UploadStep, CommitUpload), for the calls that overlap at its awaits.    *)
(* The token verifier of app/core/security.py (get_cognito_jwks and its    *)
(* lru_cache, verify_cognito_token) is modelled the same way, against a    *)
(* Cognito that rotates its keys and whose JWKS endpoint may not answer.   *)
(* get_current_user, the three authorization guards and the unique         *)
(* constraints of the users table (app/models/user.py) complete it; the    *)
(* JIT resolver of app/core/deps.py is modelled from its specification.    *)
(*                                                                         *)
(* Requests served at once are modelled with the steps between which they  *)
(* can overlap: verify_cognito_token calls inside requests.get (SpecKeys,  *)
(* SpecKeysLive) and listing operations between their query and their      *)
(* commit (SpecTxn).                                                       *)
(***************************************************************************)
EXTENDS Integers, Sequences, FiniteSets, TLC

VARIABLES
    listings,   \* table listings: row i is the listing with listing_id = i
    users,      \* table users: user_id -> [role, status, cognito_sub, email]
    s3,         \* number of objects stored by S3Service.upload_image
    last,       \* the last request served: its operation and outcome
    inflight,   \* the upload_listing_images calls suspended at an await
    jwks,       \* the lru_cache of get_cognito_jwks: the key set it holds
    idp,        \* Cognito: the keys its JWKS endpoint serves, and whether it answers
    fetches,    \* number of requests sent to the JWKS endpoint
    resolving,  \* the JIT resolver calls between their lookup and their commit
    verifying,  \* the verify_cognito_token calls inside requests.get
    approvals,  \* per listing, the admin_id of the last update_listing_status to ACTIVE
    txn         \* the listing operations between their query and their commit

vars == <<listings, users, s3, last, inflight, jwks, idp, fetches, resolving,
          verifying, approvals, txn>>

\* None, for a string and for an id (ids start at 1).
NULL == "NULL"
NoId == 0

\* ------------------------------------------------------------------ bounds

MaxListings == 1        \* rows of the listings table
MaxFetches == 3         \* requests sent to the JWKS endpoint
MaxUsers == 6           \* rows of the users table
MaxS3 == 12             \* objects in external storage

\* ------------------------------------------------------------ enumerations

ListingStatusEnum == {"PENDING", "ACTIVE", "REJECTED", "INACTIVE"}

ListingTypeEnum == {"MATERIAL", "PRODUCT"}

UserRoleEnum == {"USER", "ADMIN"}

UserStatusEnum == {"PENDING", "ACTIVE", "BLOCKED"}

\* Maximum number of images of a listing.
MaxImages == 10

\* ------------------------------------------------------------ store content

\* Table categories: category_id -> type.  No operation of the service
\* writes it.
Categories == (1 :> "MATERIAL") @@ (2 :> "PRODUCT")

\* Rows of the users table the requests refer to; user 5 does not exist.
InitUsers ==
    (1 :> [role |-> "USER",  status |-> "ACTIVE",  cognito_sub |-> "sub1", email |-> "e1"]) @@
    (2 :> [role |-> "ADMIN", status |-> "ACTIVE",  cognito_sub |-> "sub2", email |-> "e2"]) @@
    (3 :> [role |-> "USER",  status |-> "PENDING", cognito_sub |-> "sub3", email |-> "e3"]) @@
    (4 :> [role |-> "USER",  status |-> "BLOCKED", cognito_sub |-> "sub4", email |-> "e4"])

\* ------------------------------------------------------------ request inputs

UserIds == 1..5             \* seller_id / admin_id of a request
CategoryIds == 1..3         \* category_id of a ListingCreate; 3 does not exist
Titles == {"t1", "t2"}      \* values of a content field
ListingIds == 1..(MaxListings + 1)   \* listing_id of a request; the last is missing

\* ListingCreate: the fields create_listing reads, and a status field the
\* client may send along (NULL: none sent).
ListingCreate ==
    [category_id : CategoryIds, listing_type : ListingTypeEnum,
     title : Titles, status : ListingStatusEnum \cup {NULL}]

\* ListingUpdate: every field is optional; NULL / NoId marks a field the
\* client did not set, which model_dump(exclude_unset=True) leaves out.
ListingUpdate ==
    [title : Titles \cup {NULL},
     category_id : DOMAIN Categories \cup {NoId},
     listing_type : ListingTypeEnum \cup {NULL}]

\* ------------------------------------------------------------- the handlers

Outcome(r, ls) == [result |-> r, listings |-> ls]

\* get_listing_by_id with the ACTIVE filter applied whatever the flag.
get_listing_by_id_ActiveOnly(ls, listing_id, include_inactive) ==
    IF listing_id \notin 1..Len(ls) THEN NoId
    ELSE IF ls[listing_id].status # "ACTIVE" THEN NoId
    ELSE listing_id

\* get_listing_by_id: the listing_id of the row query.first() returns, or
\* NoId when it returns None.
get_listing_by_id(ls, listing_id, include_inactive) ==
    IF listing_id \notin 1..Len(ls) THEN NoId
    ELSE IF ~include_inactive /\ ls[listing_id].status # "ACTIVE" THEN NoId
    ELSE listing_id

\* ListingFilters: the filters on columns of the model; NULL / NoId is a
\* filter that is not set.
ListingFilters ==
    [listing_type : ListingTypeEnum \cup {NULL},
     category_id : DOMAIN Categories \cup {NoId},
     seller_id : {NoId, 1}]

NoFilters == [listing_type |-> NULL, category_id |-> NoId, seller_id |-> NoId]

\* page_size: int = 20
DefaultPageSize == 20

\* A variant of the public query hiding the deleted listings only.
IsPublic_NotDeleted(db_listing) == db_listing.status # "INACTIVE"

\* .filter(Listing.status == ListingStatusEnum.ACTIVE)
IsPublic(db_listing) == db_listing.status = "ACTIVE"

\* _apply_filters: the row passes every filter that is set.
_apply_filters(db_listing, filters) ==
    /\ filters.listing_type # NULL => db_listing.listing_type = filters.listing_type
    /\ filters.category_id # NoId => db_listing.category_id = filters.category_id
    /\ filters.seller_id # NoId => db_listing.seller_id = filters.seller_id

\* The ids of the rows 1..i the query selects, newest first
\* (order_by(Listing.created_at.desc())).
RECURSIVE PublicQuery(_, _, _)
PublicQuery(ls, filters, i) ==
    IF i = 0 THEN << >>
    ELSE (IF IsPublic(ls[i]) /\ _apply_filters(ls[i], filters) THEN <<i>> ELSE << >>)
            \o PublicQuery(ls, filters, i - 1)

\* get_public_listings: the page of listing ids and the total.
get_public_listings(ls, filters, page, page_size) ==
    LET query == PublicQuery(ls, filters, Len(ls))
        total == Len(query)
        skip == (page - 1) * page_size
        end == IF skip + page_size < total THEN skip + page_size ELSE total
    IN  [listings |-> SubSeq(query, skip + 1, end), total |-> total]

\* _validate_category without the comparison of the types.
_validate_category_NoTypeCheck(category_id, listing_type) ==
    IF category_id \notin DOMAIN Categories THEN "CategoryNotFound" ELSE "ok"

\* _validate_category: the exception it raises, or "ok".
_validate_category(category_id, listing_type) ==
    IF category_id \notin DOMAIN Categories THEN "CategoryNotFound"
    ELSE IF Categories[category_id] # listing_type THEN "CategoryTypeMismatch"
    ELSE "ok"

\* _validate_seller refusing only a BLOCKED seller.
_validate_seller_NotBlocked(us, seller_id) ==
    IF seller_id \notin DOMAIN us THEN "SellerNotFound"
    ELSE IF us[seller_id].status = "BLOCKED" THEN "SellerNotActive"
    ELSE "ok"

\* _validate_seller: the exception it raises, or "ok".
_validate_seller(us, seller_id) ==
    IF seller_id \notin DOMAIN us THEN "SellerNotFound"
    ELSE IF us[seller_id].status # "ACTIVE" THEN "SellerNotActive"
    ELSE "ok"

\* The new row taking the status the ListingCreate carries.
InitialStatus_FromInput(listing_data) ==
    IF listing_data.status = NULL THEN "PENDING" ELSE listing_data.status

\* The status create_listing gives the new row.
InitialStatus(listing_data) == "PENDING"

create_listing(ls, us, listing_data, seller_id) ==
    LET c == _validate_category(listing_data.category_id, listing_data.listing_type)
        s == _validate_seller(us, seller_id)
    IN  IF c # "ok" THEN Outcome(c, ls)
        ELSE IF s # "ok" THEN Outcome(s, ls)
        ELSE Outcome("ok", Append(ls,
                [seller_id |-> seller_id,
                 category_id |-> listing_data.category_id,
                 listing_type |-> listing_data.listing_type,
                 title |-> listing_data.title,
                 status |-> InitialStatus(listing_data),
                 approved_by_admin_id |-> NoId,
                 images |-> << >>]))

\* The ownership check letting an admin through.
NotOwner_UnlessAdmin(us, db_listing, seller_id) ==
    /\ db_listing.seller_id # seller_id
    /\ ~(seller_id \in DOMAIN us /\ us[seller_id].role = "ADMIN")

\* db_listing.seller_id != seller_id
NotOwner(us, db_listing, seller_id) == db_listing.seller_id # seller_id

\* A variant assigning every field of the schema, set or not.
ApplyUpdate_ResetUnset(db_listing, update_data) ==
    [db_listing EXCEPT !.title = update_data.title,
                       !.category_id = update_data.category_id,
                       !.listing_type = update_data.listing_type]

\* setattr(db_listing, field, value) for every field of update_data
ApplyUpdate(db_listing, update_data) ==
    [db_listing EXCEPT
        !.title = IF update_data.title = NULL THEN @ ELSE update_data.title,
        !.category_id =
            IF update_data.category_id = NoId THEN @ ELSE update_data.category_id,
        !.listing_type =
            IF update_data.listing_type = NULL THEN @ ELSE update_data.listing_type]

\* update_listing without the check of the row's status.
EditRefused_Never(db_listing) == FALSE

\* The check update_listing makes of the row's status.
EditRefused(db_listing) == db_listing.status = "REJECTED"

\* A variant checking the row's status before the ownership.
update_listing_StatusFirst(ls, us, listing_id, update_data, seller_id) ==
    LET found == get_listing_by_id(ls, listing_id, TRUE)
        db_listing == ls[found]
    IN  IF found = NoId THEN Outcome("NotFound", ls)
        ELSE IF EditRefused(db_listing) THEN Outcome("ImmutableState", ls)
        ELSE IF NotOwner(us, db_listing, seller_id) THEN Outcome("Forbidden", ls)
        ELSE Outcome("ok",
                [ls EXCEPT ![listing_id] = ApplyUpdate(db_listing, update_data)])

update_listing(ls, us, listing_id, update_data, seller_id) ==
    LET found == get_listing_by_id(ls, listing_id, TRUE)
        db_listing == ls[found]
    IN  IF found = NoId THEN Outcome("NotFound", ls)
        ELSE IF NotOwner(us, db_listing, seller_id) THEN Outcome("Forbidden", ls)
        ELSE IF EditRefused(db_listing) THEN Outcome("ImmutableState", ls)
        ELSE Outcome("ok",
                [ls EXCEPT ![listing_id] = ApplyUpdate(db_listing, update_data)])

\* The status delete_listing writes.
DeletedStatus(db_listing) == "INACTIVE"

delete_listing(ls, us, listing_id, seller_id) ==
    LET found == get_listing_by_id(ls, listing_id, TRUE)
        db_listing == ls[found]
    IN  IF found = NoId THEN Outcome("NotFound", ls)
        ELSE IF NotOwner(us, db_listing, seller_id) THEN Outcome("Forbidden", ls)
        ELSE Outcome("ok",
                [ls EXCEPT ![listing_id].status = DeletedStatus(db_listing)])

\* A variant that never records the approver.
ApprovedBy_Unrecorded(db_listing, new_status, admin_id) ==
    db_listing.approved_by_admin_id

\* A variant that records the first approver only.
ApprovedBy_FirstOnly(db_listing, new_status, admin_id) ==
    IF new_status = "ACTIVE" /\ db_listing.approved_by_admin_id = NoId
    THEN admin_id ELSE db_listing.approved_by_admin_id

\* approved_by_admin_id after the status change: the admin's id when the
\* new status is ACTIVE, what it was otherwise.
ApprovedBy(db_listing, new_status, admin_id) ==
    IF new_status = "ACTIVE" THEN admin_id ELSE db_listing.approved_by_admin_id

update_listing_status(ls, listing_id, new_status, admin_id) ==
    LET found == get_listing_by_id(ls, listing_id, TRUE)
        db_listing == ls[found]
    IN  IF found = NoId THEN Outcome("NotFound", ls)
        ELSE Outcome("ok",
                [ls EXCEPT ![listing_id].status = new_status,
                           ![listing_id].approved_by_admin_id =
                               ApprovedBy(db_listing, new_status, admin_id)])

\* A variant of the quota check that counts the batch alone.
QuotaExceeded_BatchOnly(current_images, n) == n > MaxImages

\* current_images + len(files) > 10
QuotaExceeded(current_images, n) == current_images + n > MaxImages

\* file.content_type.startswith('image/')
ImageTypes == {"image/png", "image/jpeg"}
ContentTypes == ImageTypes \cup {"text/plain"}

\* The first file (1-based) at which the upload loop raises: its content
\* type is no image type, or S3Service.upload_image raises on it (fail_at;
\* 0: it raises on none).  0 when the loop completes.
StopIndex(files, fail_at) ==
    LET bad == {i \in 1..Len(files) : files[i] \notin ImageTypes \/ i = fail_at}
    IN  IF bad = {} THEN 0 ELSE CHOOSE i \in bad : \A j \in bad : i <= j

\* The rows the loop adds: file idx (0-based) is primary iff it is the one
\* at primary_index and the listing had no image.
NewImages(files, primary_index, current_images) ==
    [i \in 1..Len(files) |->
        [is_primary |-> ((i - 1) = primary_index) /\ (current_images = 0)]]

upload_listing_images(ls, us, store, listing_id, files, seller_id, primary_index, fail_at) ==
    LET found == get_listing_by_id(ls, listing_id, TRUE)
        db_listing == ls[found]
        Out(r, l, o) == [result |-> r, listings |-> l, s3 |-> o]
    IN  IF found = NoId THEN Out("NotFound", ls, store)
        ELSE IF NotOwner(us, db_listing, seller_id) THEN Out("Forbidden", ls, store)
        ELSE LET current_images == Len(db_listing.images)
                 stop == StopIndex(files, fail_at)
             IN  IF QuotaExceeded(current_images, Len(files))
                 THEN Out("ImageQuotaExceeded", ls, store)
                 ELSE IF stop # 0 /\ files[stop] \notin ImageTypes
                 THEN Out("InvalidImageType", ls, store + (stop - 1))
                 ELSE IF stop # 0
                 THEN Out("UploadFailed", ls, store + (stop - 1))
                 ELSE Out("ok",
                          [ls EXCEPT ![listing_id].images =
                              @ \o NewImages(files, primary_index, current_images)],
                          store + Len(files))

\* ------------------------------------------------- app/core/security.py

\* The key ids (kid) of the signing keys Cognito may serve, and the key
\* sets of its JWKS endpoint over time.
KeyIds == {"k1", "k2"}
KeySets == {{"k1"}, {"k2"}, {"k1", "k2"}}

\* A bearer token: whether its header parses, the kid of the header (NULL:
\* none), the key that signed it, whether exp is past, whether iss and aud
\* are the configured ones, and the sub claim.  A token whose header does
\* not parse has nothing else to read.
Tokens ==
    [wellformed : {TRUE}, kid : KeyIds \cup {NULL}, signer : KeyIds,
     expired : BOOLEAN, iss_ok : BOOLEAN, aud_ok : BOOLEAN, sub : {"sub1"}]
    \cup [wellformed : {FALSE}, kid : {NULL}, signer : {"k1"},
          expired : {FALSE}, iss_ok : {TRUE}, aud_ok : {TRUE}, sub : {"sub1"}]

\* The lru_cache holding nothing, and holding a key set.
NoJwks == [cached |-> FALSE, keys |-> {}]
Cached(keys) == [cached |-> TRUE, keys |-> keys]

\* A variant of get_cognito_jwks without the lru_cache's hit.
get_cognito_jwks_Uncached(cache, provider) ==
    IF provider.up
    THEN [result |-> "ok", jwks |-> Cached(provider.keys), fetched |-> 1]
    ELSE [result |-> "UpstreamUnavailable", jwks |-> cache, fetched |-> 1]

\* A variant of get_cognito_jwks that remembers a failed fetch.
get_cognito_jwks_FailureCached(cache, provider) ==
    IF cache.cached
    THEN [result |-> IF cache.keys = {} THEN "UpstreamUnavailable" ELSE "ok",
          jwks |-> cache, fetched |-> 0]
    ELSE IF provider.up
    THEN [result |-> "ok", jwks |-> Cached(provider.keys), fetched |-> 1]
    ELSE [result |-> "UpstreamUnavailable", jwks |-> Cached({}), fetched |-> 1]

\* get_cognito_jwks: a hit returns the cached key set; a miss sends one
\* request, caches and returns the answer, or raises when the endpoint
\* does not answer, caching nothing.
get_cognito_jwks(cache, provider) ==
    IF cache.cached
    THEN [result |-> "ok", jwks |-> cache, fetched |-> 0]
    ELSE IF provider.up
    THEN [result |-> "ok", jwks |-> Cached(provider.keys), fetched |-> 1]
    ELSE [result |-> "UpstreamUnavailable", jwks |-> cache, fetched |-> 1]

\* A variant of the key lookup that falls back on a key of the set.
FindKey_Fallback(keys, kid) ==
    IF kid \in keys THEN kid
    ELSE IF keys # {} THEN CHOOSE k \in keys : TRUE ELSE NULL

\* The first jwk of the key set whose kid is the header's, or NULL (None).
FindKey(keys, kid) == IF kid \in keys THEN kid ELSE NULL

\* A variant of jwt.decode that does not verify exp.
Decodes_IgnoreExp(token, key) ==
    /\ token.signer = key
    /\ token.iss_ok
    /\ token.aud_ok

\* jwt.decode with the key found: the signature under that key, exp, iss
\* and aud all verify.
Decodes(token, key) ==
    /\ token.signer = key
    /\ ~token.expired
    /\ token.iss_ok
    /\ token.aud_ok

\* The JWTError jwt.decode raises for a token it refuses, which the
\* handler logs: the signature is verified first, then the claims.
DecodeError(token, key) ==
    IF token.signer # key THEN "JWTError: Signature verification failed"
    ELSE IF token.expired THEN "ExpiredSignatureError"
    ELSE IF ~token.aud_ok THEN "JWTClaimsError: Invalid audience"
    ELSE "JWTClaimsError: Invalid issuer"

\* A variant handing the JWTError to the caller.
CallerError_Detailed(e) == e

\* except JWTError as e: the one 401 raised whatever e is.
CallerError(e) == "InvalidToken"

\* A variant that fetches the key set again when the kid of the token is not
\* in the cached one.
verify_cognito_token_RefreshOnUnknownKid(cache, provider, token) ==
    LET hit == get_cognito_jwks(cache, provider)
        got == IF hit.result = "ok" /\ token.wellformed
                    /\ FindKey(hit.jwks.keys, token.kid) = NULL
               THEN get_cognito_jwks(NoJwks, provider)
               ELSE hit
        key == FindKey(got.jwks.keys, token.kid)
        Out(r, c) == [result |-> r, claims |-> c, jwks |-> got.jwks, fetched |-> got.fetched]
    IN  IF got.result # "ok" THEN Out(got.result, NULL)
        ELSE IF ~token.wellformed THEN Out("MalformedToken", NULL)
        ELSE IF key = NULL THEN Out("UnknownSigningKey", NULL)
        ELSE IF ~Decodes(token, key) THEN Out(CallerError(DecodeError(token, key)), NULL)
        ELSE Out("ok", token.sub)

\* verify_cognito_token: the exception raised or "ok", the sub of the
\* payload returned (NULL when it raises), and what get_cognito_jwks did.
verify_cognito_token(cache, provider, token) ==
    LET got == get_cognito_jwks(cache, provider)
        key == FindKey(got.jwks.keys, token.kid)
        Out(r, c) == [result |-> r, claims |-> c, jwks |-> got.jwks, fetched |-> got.fetched]
    IN  IF got.result # "ok" THEN Out(got.result, NULL)
        ELSE IF ~token.wellformed THEN Out("MalformedToken", NULL)
        ELSE IF key = NULL THEN Out("UnknownSigningKey", NULL)
        ELSE IF ~Decodes(token, key) THEN Out(CallerError(DecodeError(token, key)), NULL)
        ELSE Out("ok", token.sub)

\* The sub claim of a payload: the UUID strings Cognito gave the four
\* users, one it gave to nobody registered, a string that is no UUID, and
\* NULL for a payload without sub.
Subjects == {"sub1", "sub2", "sub3", "sub4", "sub9", "not-a-uuid", NULL}

\* uuid.UUID(user_id_str) does not raise ValueError.
IsUuid(sub) == sub \notin {"not-a-uuid", NULL}

\* User.user_id == user_id, the Integer primary key of a row against the
\* uuid.UUID parsed from sub: no integer key equals a UUID.
UserIdIs(user_id, uuid) == FALSE

\* select(User).where(User.user_id == user_id), scalar_one_or_none(): the
\* user_id of the row found, NoId for None.
FindUser(us, uuid) ==
    LET found == {u \in DOMAIN us : UserIdIs(u, uuid)}
    IN  IF found = {} THEN NoId ELSE CHOOSE u \in found : TRUE

\* A variant of the status checks without the one for PENDING.
StatusGate_BlockedOnly(user) ==
    IF user.status = "BLOCKED" THEN "AccountBlocked" ELSE "ok"

\* The status checks of get_current_user on the row its query returned.
StatusGate(user) ==
    IF user.status = "BLOCKED" THEN "AccountBlocked"
    ELSE IF user.status = "PENDING" THEN "AccountPending"
    ELSE "ok"

\* get_current_user on the outcome of verify_cognito_token: the exception
\* raised or "ok", and the user_id of the user returned (NoId when it
\* raises).  binds: whether the database driver takes a UUID as the
\* parameter of a comparison with an Integer column; when it does not,
\* db.execute raises and the request ends with an error that is no
\* HTTPException.
get_current_user(us, verified, binds) ==
    LET sub == verified.claims
        user == FindUser(us, sub)
        Out(r, u) == [result |-> r, user |-> u]
    IN  IF verified.result # "ok" THEN Out(verified.result, NoId)
        ELSE IF sub = NULL THEN Out("InvalidToken", NoId)
        ELSE IF ~IsUuid(sub) THEN Out("InvalidToken", NoId)
        ELSE IF ~binds THEN Out("DatabaseError", NoId)
        ELSE IF user = NoId THEN Out("UnregisteredUser", NoId)
        ELSE IF StatusGate(us[user]) # "ok" THEN Out(StatusGate(us[user]), NoId)
        ELSE Out("ok", user)

\* get_current_active_user: the exception raised, or "ok".
get_current_active_user(current_user) ==
    IF current_user.status # "ACTIVE" THEN "AccountInactive" ELSE "ok"

\* A variant of require_admin that lets every ACTIVE user through.
require_admin_AnyActive(current_user) ==
    IF current_user.status # "ACTIVE" THEN "InsufficientRole" ELSE "ok"

\* require_admin, given the user its dependency resolved.
require_admin(current_user) ==
    IF current_user.role # "ADMIN" THEN "InsufficientRole" ELSE "ok"

\* Depends(require_admin) on the row the query of get_current_user returned:
\* get_current_user, then get_current_active_user, then require_admin, each
\* reached when the one before returned.
require_admin_chain(user) ==
    IF StatusGate(user) # "ok" THEN StatusGate(user)
    ELSE IF get_current_active_user(user) # "ok" THEN get_current_active_user(user)
    ELSE require_admin(user)

\* A variant of verify_resource_owner without the pass for admins.
verify_resource_owner_OwnerOnly(resource_owner_id, current_user) ==
    IF current_user.user_id # resource_owner_id THEN "Forbidden" ELSE "ok"

\* verify_resource_owner: the exception raised, or "ok".
verify_resource_owner(resource_owner_id, current_user) ==
    IF current_user.role = "ADMIN" THEN "ok"
    ELSE IF current_user.user_id # resource_owner_id THEN "Forbidden"
    ELSE "ok"

\* A User row as the model's defaults make it: role USER, status PENDING.
NewUser(sub, email) ==
    [role |-> "USER", status |-> "PENDING", cognito_sub |-> sub, email |-> email]

\* A variant of the constraints with email alone unique.
Conflicts_EmailOnly(us, row) ==
    \E u \in DOMAIN us : us[u].email = row.email

\* A variant of the constraints with cognito_sub alone unique.
Conflicts_SubOnly(us, row) ==
    \E u \in DOMAIN us : us[u].cognito_sub = row.cognito_sub

\* unique=True on cognito_sub and on email: the row conflicts with a row of
\* the table.
Conflicts(us, row) ==
    \E u \in DOMAIN us : \/ us[u].cognito_sub = row.cognito_sub
                         \/ us[u].email = row.email

\* db.add(user); db.commit(): IntegrityError and the table as it was when
\* the row conflicts, else the row inserted under the next user_id.
InsertUser(us, row) ==
    IF Conflicts(us, row)
    THEN [result |-> "IntegrityError", users |-> us, user |-> NoId]
    ELSE [result |-> "ok", users |-> Append(us, row), user |-> Len(us) + 1]

\* The lookup of a user by external subject: the user whose cognito_sub
\* is sub, NoId when there is none.
BySubject(us, sub) ==
    LET found == {u \in DOMAIN us : us[u].cognito_sub = sub}
    IN  IF found = {} THEN NoId ELSE CHOOSE u \in found : TRUE

\* What the resolver answers for a user it found: BLOCKED and PENDING
\* accounts are refused.
Gate(us, u) ==
    IF us[u].status = "BLOCKED" THEN "AccountBlocked"
    ELSE IF us[u].status = "PENDING" THEN "AccountPending"
    ELSE "ok"

\* get_current_user_with_jit (deps.py), one call alone: the user with the
\* subject of the claims if there is one; if none, a new PENDING user with
\* that subject and the email of the claims is committed and returned.
get_current_user_with_jit(us, sub, email) ==
    LET u == BySubject(us, sub)
        ins == InsertUser(us, NewUser(sub, email))
        Out(r, t, x) == [result |-> r, users |-> t, user |-> x]
    IN  IF ~IsUuid(sub) THEN Out("InvalidToken", us, NoId)
        ELSE IF u = NoId THEN Out(ins.result, ins.users, ins.user)
        ELSE IF Gate(us, u) # "ok" THEN Out(Gate(us, u), us, NoId)
        ELSE Out("ok", us, u)

\* The requests served at the same time, and a request slot that holds no
\* upload: an upload in progress holds its arguments, the image count it
\* read (current_images) and the number of files it has uploaded (idx).
Workers == 1..2
Idle ==
    [pc |-> "idle", listing_id |-> NoId, files |-> << >>, primary_index |-> 0,
     fail_at |-> 0, current_images |-> 0, idx |-> 0]

\* A slot that holds no JIT resolver call.
NoCall == [pc |-> "idle", sub |-> NULL, email |-> NULL]

\* A verify_cognito_token call of one thread: idle, or inside requests.get
\* of get_cognito_jwks with an answer on its way ("fetching") or with no
\* answer coming ("waiting").
NoVerify == [pc |-> "idle", kid |-> NULL]

\* A listing operation between its query and its commit: the row it works
\* on and the columns its session holds a new value for (NULL / NoId: a
\* column it did not change).
NoWrites ==
    [title |-> NULL, category_id |-> NoId, listing_type |-> NULL,
     status |-> NULL, approved_by_admin_id |-> NoId]

NoTxn ==
    [pc |-> "idle", op |-> NULL, listing_id |-> NoId, writes |-> NoWrites,
     admin_id |-> NoId]

\* The columns of a row the session changed since it loaded it: the unit of
\* work puts these columns, and no other, in the UPDATE of the flush.
Dirty(loaded, db_listing) ==
    [title |-> IF db_listing.title = loaded.title THEN NULL ELSE db_listing.title,
     category_id |-> IF db_listing.category_id = loaded.category_id
                     THEN NoId ELSE db_listing.category_id,
     listing_type |-> IF db_listing.listing_type = loaded.listing_type
                      THEN NULL ELSE db_listing.listing_type,
     status |-> IF db_listing.status = loaded.status THEN NULL ELSE db_listing.status,
     approved_by_admin_id |->
         IF db_listing.approved_by_admin_id = loaded.approved_by_admin_id
         THEN NoId ELSE db_listing.approved_by_admin_id]

\* A variant of the commit that writes the title in a transaction of its own,
\* before the other columns.
Flush_TitleFirst(row, writes) ==
    IF writes.title # NULL THEN [row EXCEPT !.title = writes.title]
    ELSE [row EXCEPT
            !.category_id = IF writes.category_id = NoId THEN @ ELSE writes.category_id,
            !.listing_type = IF writes.listing_type = NULL THEN @ ELSE writes.listing_type,
            !.status = IF writes.status = NULL THEN @ ELSE writes.status,
            !.approved_by_admin_id =
                IF writes.approved_by_admin_id = NoId THEN @
                ELSE writes.approved_by_admin_id]

\* self.db.commit(): one UPDATE of the changed columns on the row as it is in
\* the table, in one transaction.
Flush(row, writes) ==
    [row EXCEPT
        !.title = IF writes.title = NULL THEN @ ELSE writes.title,
        !.category_id = IF writes.category_id = NoId THEN @ ELSE writes.category_id,
        !.listing_type = IF writes.listing_type = NULL THEN @ ELSE writes.listing_type,
        !.status = IF writes.status = NULL THEN @ ELSE writes.status,
        !.approved_by_admin_id =
            IF writes.approved_by_admin_id = NoId THEN @
            ELSE writes.approved_by_admin_id]

\* ---------------------------------------------------------------- actions

\* A served request: the operation, the status a ListingCreate carried
\* (NULL otherwise) and the outcome.
Served(op, arg, r) == [op |-> op, arg |-> arg, result |-> r]

Init ==
    /\ listings = << >>
    /\ users = InitUsers
    /\ s3 = 0
    /\ last = Served("none", NULL, NULL)
    /\ inflight = [w \in Workers |-> Idle]
    /\ jwks = NoJwks
    /\ idp = [keys |-> {"k1"}, up |-> TRUE]
    /\ fetches = 0
    /\ resolving = [w \in Workers |-> NoCall]
    /\ verifying = [w \in Workers |-> NoVerify]
    /\ approvals = [i \in ListingIds |-> NoId]
    /\ txn = [w \in Workers |-> NoTxn]

\* POST: create_listing, for the requests in reqs (<<listing_data, seller_id>>).
CreateListing(reqs) ==
    \E req \in reqs :
        LET out == create_listing(listings, users, req[1], req[2])
        IN  /\ out.result = "ok" => Len(listings) < MaxListings
            /\ listings' = out.listings
            /\ last' = Served("create", req[1].status, out.result)
            /\ UNCHANGED <<users, s3, inflight, jwks, idp, fetches, resolving, verifying, approvals, txn>>

\* PATCH: update_listing, for the update_data in updates.
UpdateListing(updates, callers) ==
    \E listing_id \in ListingIds, update_data \in updates, seller_id \in callers :
        LET out == update_listing(listings, users, listing_id, update_data, seller_id)
        IN  /\ listings' = out.listings
            /\ last' = Served("update", NULL, out.result)
            /\ UNCHANGED <<users, s3, inflight, jwks, idp, fetches, resolving, verifying, approvals, txn>>

\* DELETE: delete_listing.
DeleteListing(callers) ==
    \E listing_id \in ListingIds, seller_id \in callers :
        LET out == delete_listing(listings, users, listing_id, seller_id)
        IN  /\ listings' = out.listings
            /\ last' = Served("delete", NULL, out.result)
            /\ UNCHANGED <<users, s3, inflight, jwks, idp, fetches, resolving, verifying, approvals, txn>>

\* Moderation: update_listing_status, called with the id of an admin.
UpdateListingStatus ==
    \E listing_id \in ListingIds, new_status \in ListingStatusEnum,
       admin_id \in {u \in DOMAIN users : users[u].role = "ADMIN"} :
        LET out == update_listing_status(listings, listing_id, new_status, admin_id)
        IN  /\ listings' = out.listings
            /\ last' = Served("setStatus", NULL, out.result)
            /\ approvals' = IF out.result = "ok" /\ new_status = "ACTIVE"
                            THEN [approvals EXCEPT ![listing_id] = admin_id]
                            ELSE approvals
            /\ UNCHANGED <<users, s3, inflight, jwks, idp, fetches, resolving, verifying, txn>>

\* Image upload: upload_listing_images, for the uploads in reqs
\* (<<files, primary_index, fail_at>>).
UploadListingImages(reqs, callers) ==
    \E listing_id \in ListingIds, req \in reqs, seller_id \in callers :
        LET out == upload_listing_images(listings, users, s3, listing_id, req[1],
                                         seller_id, req[2], req[3])
        IN  /\ out.s3 <= MaxS3
            /\ listings' = out.listings
            /\ s3' = out.s3
            /\ last' = Served("attach", NULL, out.result)
            /\ UNCHANGED <<users, inflight, jwks, idp, fetches, resolving, verifying, approvals, txn>>

\* upload_listing_images up to its first await (lines 289-309): the lookup,
\* the ownership check and the quota check against the image count read.
\* A call that passes them is suspended in slot w with that count.
BeginUpload(reqs, callers) ==
    \E w \in Workers, listing_id \in ListingIds, req \in reqs, seller_id \in callers :
        LET found == get_listing_by_id(listings, listing_id, TRUE)
            db_listing == listings[found]
            current_images == Len(db_listing.images)
            Raise(r) == /\ last' = Served("attach", NULL, r)
                        /\ UNCHANGED inflight
        IN  /\ inflight[w].pc = "idle"
            /\ IF found = NoId THEN Raise("NotFound")
               ELSE IF NotOwner(users, db_listing, seller_id) THEN Raise("Forbidden")
               ELSE IF QuotaExceeded(current_images, Len(req[1]))
               THEN Raise("ImageQuotaExceeded")
               ELSE /\ inflight' = [inflight EXCEPT ![w] =
                            [pc |-> "loop", listing_id |-> listing_id, files |-> req[1],
                             primary_index |-> req[2], fail_at |-> req[3],
                             current_images |-> current_images, idx |-> 0]]
                    /\ UNCHANGED last
            /\ UNCHANGED <<listings, users, s3, jwks, idp, fetches, resolving, verifying, approvals, txn>>

\* One iteration of the loop of the call in slot w (lines 314-345): the
\* type check of the file, then its upload, awaited; a file that fails
\* either ends the call, the files uploaded before it staying in S3.
UploadStep(w) ==
    LET call == inflight[w]
        file == call.files[call.idx + 1]
        Raise(r) == /\ last' = Served("attach", NULL, r)
                    /\ inflight' = [inflight EXCEPT ![w] = Idle]
                    /\ UNCHANGED s3
    IN  /\ call.pc = "loop"
        /\ call.idx < Len(call.files)
        /\ IF file \notin ImageTypes THEN Raise("InvalidImageType")
           ELSE IF call.fail_at = call.idx + 1 THEN Raise("UploadFailed")
           ELSE /\ s3 < MaxS3
                /\ s3' = s3 + 1
                /\ inflight' = [inflight EXCEPT ![w].idx = @ + 1]
                /\ UNCHANGED last
        /\ UNCHANGED <<listings, users, jwks, idp, fetches, resolving, verifying, approvals, txn>>

\* The commit of the call in slot w (line 347): the rows the loop added are
\* inserted, with the is_primary computed from the count read at the start.
CommitUpload(w) ==
    LET call == inflight[w]
    IN  /\ call.pc = "loop"
        /\ call.idx = Len(call.files)
        /\ listings' = [listings EXCEPT ![call.listing_id].images =
                @ \o NewImages(call.files, call.primary_index, call.current_images)]
        /\ inflight' = [inflight EXCEPT ![w] = Idle]
        /\ last' = Served("attach", NULL, "ok")
        /\ UNCHANGED <<users, s3, jwks, idp, fetches, resolving, verifying, approvals, txn>>

\* --------------------------------------------------- the lifecycle, Spec
\* The requests sent: listings of type MATERIAL in every category id, by
\* every user id but the admin's; edits of the title, uploads and deletions
\* by the seller, the admin and a third user; uploads of six images, of one
\* file that is no image, and one that S3 refuses.

Sellers == UserIds \ {2}
Callers == {1, 2, 3}

CreateRequests ==
    {r \in ListingCreate : /\ r.listing_type = "MATERIAL"
                           /\ r.title = "t1"
                           /\ r.status \in {NULL, "ACTIVE"}} \X Sellers

TitleUpdates ==
    {u \in ListingUpdate : u.category_id = NoId /\ u.listing_type = NULL}

SixImages == [i \in 1..6 |-> "image/png"]

Uploads == {<<SixImages, 0, 0>>, <<SixImages, 0, 1>>, << <<"text/plain">>, 0, 0>>}

Next ==
    \/ CreateListing(CreateRequests)
    \/ UpdateListing(TitleUpdates, Callers)
    \/ DeleteListing(Callers)
    \/ UpdateListingStatus
    \/ UploadListingImages(Uploads, Callers)

Spec == Init /\ [][Next]_vars

\* ------------------------------------------- creation and edits, SpecEdit
\* create_listing and update_listing alone, with every ListingCreate that
\* carries no status and every ListingUpdate.

EditCreateRequests == {r \in ListingCreate : r.status = NULL} \X UserIds

NextEdit ==
    \/ CreateListing(EditCreateRequests)
    \/ UpdateListing(ListingUpdate, Callers)

SpecEdit == Init /\ [][NextEdit]_vars

\* ------------------------------------------------- the images, SpecImages
\* One seller's listing and the uploads to it, one call at a time: batches
\* of one, four, five and six images, a primary_index inside and outside
\* the batch, a file that is no image first or second in the batch, and an
\* upload S3 refuses.

Batch(n) == [i \in 1..n |-> "image/png"]

ImageCreateRequests ==
    {r \in ListingCreate : /\ r.category_id = 1 /\ r.listing_type = "MATERIAL"
                           /\ r.title = "t1" /\ r.status = NULL} \X {1}

ImageCallers == {1, 3}

ImageUploads ==
    {<<SixImages, 0, 0>>, <<Batch(5), 4, 0>>, <<Batch(4), 0, 0>>,
     << <<"image/jpeg">>, 1, 0>>,
     << <<"image/png", "text/plain">>, 0, 0>>,
     << <<"text/plain", "image/png">>, 0, 0>>,
     <<Batch(2), 0, 2>>}

NextImages ==
    \/ CreateListing(ImageCreateRequests)
    \/ UploadListingImages(ImageUploads, ImageCallers)

SpecImages == Init /\ [][NextImages]_vars

\* --------------------------------------------- the token verifier, SpecAuth
\* Tokens presented to verify_cognito_token while Cognito rotates its keys
\* and its JWKS endpoint goes down and comes back.

\* A request verifies its bearer token.
VerifyToken ==
    \E token \in Tokens :
        LET out == verify_cognito_token(jwks, idp, token)
        IN  /\ fetches + out.fetched <= MaxFetches
            /\ jwks' = out.jwks
            /\ fetches' = fetches + out.fetched
            /\ last' = Served("verify", token.kid, out.result)
            /\ UNCHANGED <<listings, users, s3, inflight, idp, resolving, verifying, approvals, txn>>

\* Cognito replaces the key set its endpoint serves.
RotateKeys ==
    \E keys \in KeySets \ {idp.keys} :
        /\ idp' = [idp EXCEPT !.keys = keys]
        /\ UNCHANGED <<listings, users, s3, last, inflight, jwks, fetches, resolving, verifying, approvals, txn>>

\* The JWKS endpoint stops answering, or answers again.
EndpointUpDown ==
    /\ idp' = [idp EXCEPT !.up = ~@]
    /\ UNCHANGED <<listings, users, s3, last, inflight, jwks, fetches, resolving, verifying, approvals, txn>>

NextAuth ==
    \/ VerifyToken
    \/ RotateKeys
    \/ EndpointUpDown

SpecAuth == Init /\ [][NextAuth]_vars

\* ------------------------------------------ the identity resolver, SpecResolve
\* Requests through get_current_user, with tokens that verify for every
\* subject and one that is expired.

GoodToken(sub) ==
    [wellformed |-> TRUE, kid |-> "k1", signer |-> "k1", expired |-> FALSE,
     iss_ok |-> TRUE, aud_ok |-> TRUE, sub |-> sub]

BearerTokens ==
    {GoodToken(sub) : sub \in Subjects}
        \cup {[GoodToken("sub1") EXCEPT !.expired = TRUE]}

\* A request whose dependency is get_current_user.
GetCurrentUser ==
    \E token \in BearerTokens, binds \in BOOLEAN :
        LET verified == verify_cognito_token(jwks, idp, token)
            out == get_current_user(users, verified, binds)
        IN  /\ fetches + verified.fetched <= MaxFetches
            /\ jwks' = verified.jwks
            /\ fetches' = fetches + verified.fetched
            /\ last' = Served("resolve", token.sub, out.result)
            /\ UNCHANGED <<listings, users, s3, inflight, idp, resolving, verifying, approvals, txn>>

NextResolve ==
    \/ GetCurrentUser
    \/ RotateKeys
    \/ EndpointUpDown

SpecResolve == Init /\ [][NextResolve]_vars

\* ------------------------------------------------ the users table, SpecUsers
\* Users committed to the table, by registration and by the JIT resolver,
\* with subjects and emails new to the table or already in it.

NewSubjects == {"sub1", "sub8", "sub9"}
Emails == {"e1", "e8", "e9"}

\* db.add(User(cognito_sub, email)); db.commit()
CommitUser ==
    \E sub \in NewSubjects, email \in Emails :
        LET out == InsertUser(users, NewUser(sub, email))
        IN  /\ Len(out.users) <= MaxUsers
            /\ users' = out.users
            /\ last' = Served("commitUser", sub, out.result)
            /\ UNCHANGED <<listings, s3, inflight, jwks, idp, fetches, resolving, verifying, approvals, txn>>

\* The lookup of a JIT resolver call in slot w: a user found is answered
\* for at once; with none found the call goes on to create one.
JitLookup ==
    \E w \in Workers, sub \in NewSubjects, email \in Emails :
        LET u == BySubject(users, sub)
        IN  /\ resolving[w].pc = "idle"
            /\ IF u # NoId
               THEN /\ last' = Served("resolveOrCreate", sub, Gate(users, u))
                    /\ UNCHANGED resolving
               ELSE /\ resolving' = [resolving EXCEPT ![w] =
                            [pc |-> "create", sub |-> sub, email |-> email]]
                    /\ UNCHANGED last
            /\ UNCHANGED <<listings, users, s3, inflight, jwks, idp, fetches, verifying, approvals, txn>>

\* The commit of the user the call in slot w creates.
JitCommit(w) ==
    LET call == resolving[w]
        out == InsertUser(users, NewUser(call.sub, call.email))
    IN  /\ call.pc = "create"
        /\ Len(out.users) <= MaxUsers
        /\ users' = out.users
        /\ resolving' = [resolving EXCEPT ![w] = NoCall]
        /\ last' = Served("resolveOrCreate", call.sub, out.result)
        /\ UNCHANGED <<listings, s3, inflight, jwks, idp, fetches, verifying, approvals, txn>>

NextUsers ==
    \/ CommitUser
    \/ JitLookup
    \/ \E w \in Workers : JitCommit(w)

SpecUsers == Init /\ [][NextUsers]_vars

\* ------------------------------------------ the authorization guards, SpecGuards
\* The three guards of security.py applied to users of every role and
\* status, while users are committed to the table.

\* The User objects handed to a guard.
AnyUser == [user_id : UserIds, role : UserRoleEnum, status : UserStatusEnum]

GetCurrentActiveUser ==
    \E current_user \in AnyUser :
        /\ last' = Served("requireActive", current_user.status,
                          get_current_active_user(current_user))
        /\ UNCHANGED <<listings, users, s3, inflight, jwks, idp, fetches, resolving, verifying, approvals, txn>>

RequireAdmin ==
    \E current_user \in AnyUser :
        /\ last' = Served("requireAdmin", current_user.role, require_admin(current_user))
        /\ UNCHANGED <<listings, users, s3, inflight, jwks, idp, fetches, resolving, verifying, approvals, txn>>

VerifyResourceOwner ==
    \E current_user \in AnyUser, resource_owner_id \in UserIds :
        /\ last' = Served("requireOwnerOrAdmin", current_user.role,
                          verify_resource_owner(resource_owner_id, current_user))
        /\ UNCHANGED <<listings, users, s3, inflight, jwks, idp, fetches, resolving, verifying, approvals, txn>>

NextGuards ==
    \/ CommitUser
    \/ GetCurrentActiveUser
    \/ RequireAdmin
    \/ VerifyResourceOwner

SpecGuards == Init /\ [][NextGuards]_vars

\* ------------------------------------- the dependency chain, SpecChain
\* Requests to an endpoint that depends on require_admin: with a bearer
\* token, through verify_cognito_token and the query of get_current_user,
\* and from the row that query returned on.

\* A request with a bearer token.
AdminRequest ==
    \E token \in BearerTokens, binds \in BOOLEAN :
        LET verified == verify_cognito_token(jwks, idp, token)
            out == get_current_user(users, verified, binds)
        IN  /\ fetches + verified.fetched <= MaxFetches
            /\ jwks' = verified.jwks
            /\ fetches' = fetches + verified.fetched
            /\ last' = Served("adminRequest", token.sub,
                              IF out.result # "ok" THEN out.result
                              ELSE require_admin_chain(users[out.user]))
            /\ UNCHANGED <<listings, users, s3, inflight, idp, resolving, verifying,
                           approvals, txn>>

\* The chain from a row returned by the query on.
AdminChain ==
    \E user \in AnyUser :
        /\ last' = Served("adminChain", user.role, require_admin_chain(user))
        /\ UNCHANGED <<listings, users, s3, inflight, jwks, idp, fetches, resolving,
                       verifying, approvals, txn>>

NextChain ==
    \/ AdminRequest
    \/ AdminChain
    \/ RotateKeys
    \/ EndpointUpDown

SpecChain == Init /\ [][NextChain]_vars

\* ----------------------------------------- concurrent uploads, SpecUploads
\* The same listing with two upload_listing_images calls in progress at
\* once, each suspended at the await of an S3 upload while the other runs.

ConcurrentUploads ==
    {<<SixImages, 0, 0>>, << <<"image/png", "text/plain">>, 0, 0>>, <<Batch(2), 0, 2>>}

NextUploads ==
    \/ CreateListing(ImageCreateRequests)
    \/ BeginUpload(ConcurrentUploads, ImageCallers)
    \/ \E w \in Workers : UploadStep(w)
    \/ \E w \in Workers : CommitUpload(w)

SpecUploads == Init /\ [][NextUploads]_vars

\* ------------------------------------------ two moderators, SpecApproval
\* The lifecycle of the listings of seller 1 with two admins in the users
\* table, users 2 and 3.

TwoAdmins ==
    [InitUsers EXCEPT ![3] = [@ EXCEPT !.role = "ADMIN", !.status = "ACTIVE"]]

InitApproval ==
    /\ listings = << >>
    /\ users = TwoAdmins
    /\ s3 = 0
    /\ last = Served("none", NULL, NULL)
    /\ inflight = [w \in Workers |-> Idle]
    /\ jwks = NoJwks
    /\ idp = [keys |-> {"k1"}, up |-> TRUE]
    /\ fetches = 0
    /\ resolving = [w \in Workers |-> NoCall]
    /\ verifying = [w \in Workers |-> NoVerify]
    /\ approvals = [i \in ListingIds |-> NoId]
    /\ txn = [w \in Workers |-> NoTxn]

NextApproval ==
    \/ CreateListing(ImageCreateRequests)
    \/ UpdateListing(TitleUpdates, {1})
    \/ DeleteListing({1})
    \/ UpdateListingStatus
    \/ UploadListingImages({<<Batch(5), 0, 0>>}, {1})

SpecApproval == InitApproval /\ [][NextApproval]_vars

\* ------------------------------------ verify calls of several threads, SpecKeys
\* verify_cognito_token called from two threads at once. lru_cache looks the
\* key up under its lock, releases the lock, runs get_cognito_jwks and stores
\* the result unless another call stored one in the meantime.

KeyTokens ==
    {[GoodToken("sub1") EXCEPT !.kid = k, !.signer = k] : k \in KeyIds}

KeyToken(kid) ==
    [GoodToken("sub1") EXCEPT !.kid = kid, !.signer = kid]

\* The calls that have sent their request to the JWKS endpoint and not
\* returned from requests.get.
InFlight ==
    {w \in Workers : verifying[w].pc \in {"fetching", "waiting"}}

\* requests.get(jwks_url, timeout=10): a request that gets no answer raises
\* requests.Timeout.
Expires_Never(call) ==
    FALSE

Expires(call) ==
    call.pc = "waiting"

\* A thread calls verify_cognito_token: a cache hit verifies at once, a miss
\* sends the request.
BeginVerify(w) ==
    /\ verifying[w].pc = "idle"
    /\ \E token \in KeyTokens :
        IF jwks.cached
        THEN /\ last' = Served("verify", token.kid,
                               verify_cognito_token(jwks, idp, token).result)
             /\ UNCHANGED <<listings, users, s3, inflight, jwks, idp, fetches,
                            resolving, verifying, approvals, txn>>
        ELSE /\ fetches < MaxFetches
             /\ fetches' = fetches + 1
             /\ \E pc \in {"fetching", "waiting"} :
                    verifying' = [verifying EXCEPT ![w] = [pc |-> pc, kid |-> token.kid]]
             /\ UNCHANGED <<listings, users, s3, last, inflight, jwks, idp,
                            resolving, approvals, txn>>

\* The endpoint answers the request of a thread: the body of
\* get_cognito_jwks returns or raises, and the call goes on with the keys it
\* got.
FinishVerify(w) ==
    /\ verifying[w].pc = "fetching"
    /\ LET out == verify_cognito_token(NoJwks, idp, KeyToken(verifying[w].kid))
       IN  /\ jwks' = IF jwks.cached THEN jwks ELSE out.jwks
           /\ last' = Served("verify", verifying[w].kid, out.result)
    /\ verifying' = [verifying EXCEPT ![w] = NoVerify]
    /\ UNCHANGED <<listings, users, s3, inflight, idp, fetches, resolving, approvals, txn>>

\* The timeout of a request without answer runs out: RequestException,
\* raised to the caller as the 500 of lines 58-63.
TimeoutVerify(w) ==
    /\ Expires(verifying[w])
    /\ last' = Served("timeout", verifying[w].kid, "UpstreamUnavailable")
    /\ verifying' = [verifying EXCEPT ![w] = NoVerify]
    /\ UNCHANGED <<listings, users, s3, inflight, jwks, idp, fetches, resolving, approvals, txn>>

NextKeys ==
    \/ \E w \in Workers : BeginVerify(w)
    \/ \E w \in Workers : FinishVerify(w)
    \/ \E w \in Workers : TimeoutVerify(w)
    \/ RotateKeys
    \/ EndpointUpDown

SpecKeys == Init /\ [][NextKeys]_vars

\* The same calls with time passing: an answer on its way arrives, and the
\* timeout of a request without answer runs out.
SpecKeysLive ==
    /\ Init /\ [][NextKeys]_vars
    /\ \A w \in Workers : WF_vars(FinishVerify(w)) /\ WF_vars(TimeoutVerify(w))

\* ------------------------------ listing operations of two requests, SpecTxn
\* update_listing, delete_listing and update_listing_status on one listing,
\* each in a session of its own: the query and the checks of one operation,
\* then the operations of other requests, then its commit.

TxnUpdates ==
    {[title |-> "t2", category_id |-> NoId, listing_type |-> NULL],
     [title |-> "t2", category_id |-> 2, listing_type |-> "PRODUCT"]}

\* The outcome of an operation run on the table as it is now.
TxnOutcome(op, listing_id, update_data, caller, new_status) ==
    CASE op = "update" -> update_listing(listings, users, listing_id, update_data, caller)
      [] op = "delete" -> delete_listing(listings, users, listing_id, caller)
      [] op = "setStatus" -> update_listing_status(listings, listing_id, new_status, caller)

\* An operation queries the listing, makes its checks and assigns the
\* columns on the object of its session; one that raises is over.
BeginTxn(w) ==
    /\ txn[w].pc = "idle"
    /\ \E op \in {"update", "delete", "setStatus"}, listing_id \in ListingIds,
          update_data \in TxnUpdates, new_status \in {"ACTIVE", "REJECTED"} :
        \E caller \in IF op = "setStatus" THEN {u \in DOMAIN users : users[u].role = "ADMIN"}
                       ELSE {1} :
            LET out == TxnOutcome(op, listing_id, update_data, caller, new_status)
            IN  IF out.result # "ok"
                THEN /\ last' = Served(op, NULL, out.result)
                     /\ UNCHANGED txn
                ELSE /\ txn' = [txn EXCEPT ![w] =
                            [pc |-> "pending", op |-> op, listing_id |-> listing_id,
                             writes |-> Dirty(listings[listing_id], out.listings[listing_id]),
                             admin_id |-> IF op = "setStatus" /\ new_status = "ACTIVE"
                                          THEN caller ELSE NoId]]
                     /\ UNCHANGED last
    /\ UNCHANGED <<listings, users, s3, inflight, jwks, idp, fetches, resolving,
                   verifying, approvals>>

\* self.db.commit() of an operation.
CommitTxn(w) ==
    /\ txn[w].pc = "pending"
    /\ listings' = [listings EXCEPT ![txn[w].listing_id] = Flush(@, txn[w].writes)]
    /\ approvals' = IF txn[w].admin_id = NoId THEN approvals
                    ELSE [approvals EXCEPT ![txn[w].listing_id] = txn[w].admin_id]
    /\ last' = Served(txn[w].op, NULL, "ok")
    /\ txn' = [txn EXCEPT ![w] = NoTxn]
    /\ UNCHANGED <<users, s3, inflight, jwks, idp, fetches, resolving, verifying>>

NextTxn ==
    \/ CreateListing(ImageCreateRequests)
    \/ \E w \in Workers : BeginTxn(w)
    \/ \E w \in Workers : CommitTxn(w)

SpecTxn == Init /\ [][NextTxn]_vars

\* ------------------------------------------------------------ the claims

\* The requests the claims range over.
AnyCreate == ListingCreate \X UserIds

AnyUpload ==
    {<<SixImages, 0, 0>>, <<SixImages, 3, 2>>, << <<"image/jpeg">>, 0, 0>>,
     << <<"text/plain">>, 0, 0>>, << <<"image/png", "text/plain">>, 1, 0>>,
     <<[i \in 1..11 |-> "image/png"], 0, 0>>}

Rows == 1..Len(listings)

\* C1: every create_listing that succeeds persists the new listing with
\* status PENDING, whatever status the ListingCreate carried.
C1_CreateYieldsPending ==
    /\ (last.op = "create" /\ last.result = "ok")
            => listings[Len(listings)].status = "PENDING"
    /\ \A req \in AnyCreate :
            LET out == create_listing(listings, users, req[1], req[2])
            IN  out.result = "ok" =>
                    /\ Len(out.listings) = Len(listings) + 1
                    /\ out.listings[Len(out.listings)].status = "PENDING"

\* C1 witness: a create that carried status ACTIVE succeeded and its row
\* is PENDING.
C1_Witness ==
    /\ last = Served("create", "ACTIVE", "ok")
    /\ listings[Len(listings)].status = "PENDING"

\* C2: every listing's listing_type is the type of its category, after any
\* sequence of create_listing and update_listing calls.
C2_TypeMatchesCategory ==
    \A i \in Rows : listings[i].listing_type = Categories[listings[i].category_id]

\* C3: create_listing raises CategoryNotFound for a category id that does
\* not exist and CategoryTypeMismatch for a category of the other type, and
\* persists nothing in either case.
C3_CategoryErrors ==
    \A req \in AnyCreate :
        LET out == create_listing(listings, users, req[1], req[2])
            cat == req[1].category_id
        IN  /\ cat \notin DOMAIN Categories =>
                    out = Outcome("CategoryNotFound", listings)
            /\ (cat \in DOMAIN Categories /\ Categories[cat] # req[1].listing_type) =>
                    out = Outcome("CategoryTypeMismatch", listings)

\* C3 witness: a create of a MATERIAL listing in the PRODUCT category was
\* refused.
C3_Witness == last.op = "create" /\ last.result = "CategoryTypeMismatch"

\* The two exceptions of _validate_seller.
SellerNotEligible == {"SellerNotFound", "SellerNotActive"}

\* C4: create_listing succeeds only for an existing ACTIVE seller; for a
\* missing, PENDING or BLOCKED seller it raises a seller error and persists
\* nothing, unless the category is invalid: the category error comes first.
C4_SellerMustBeActive ==
    \A req \in AnyCreate :
        LET out == create_listing(listings, users, req[1], req[2])
            eligible == req[2] \in DOMAIN users /\ users[req[2]].status = "ACTIVE"
            cat_ok == _validate_category(req[1].category_id, req[1].listing_type) = "ok"
        IN  /\ out.result = "ok" => eligible
            /\ (cat_ok /\ ~eligible) =>
                    out.result \in SellerNotEligible /\ out.listings = listings
            /\ ~cat_ok => out.result \in {"CategoryNotFound", "CategoryTypeMismatch"}

\* C4 witness: a create by the PENDING or the BLOCKED user was refused.
C4_Witness == last.op = "create" /\ last.result = "SellerNotActive"

\* The outcome of update_listing_status on row i, for every status and
\* every admin: it succeeds and the row takes the status asked for.
StatusChangeSucceeds(i) ==
    \A new_status \in ListingStatusEnum, admin_id \in UserIds :
        LET out == update_listing_status(listings, i, new_status, admin_id)
        IN  /\ out.result = "ok"
            /\ out.listings[i].status = new_status

\* C5 as stated: on a REJECTED listing every update_listing raises
\* ImmutableState and changes nothing, and update_listing_status succeeds.
C5_RejectedAlwaysImmutableState ==
    \A i \in Rows : listings[i].status = "REJECTED" =>
        /\ \A update_data \in ListingUpdate, seller_id \in UserIds :
               update_listing(listings, users, i, update_data, seller_id)
                   = Outcome("ImmutableState", listings)
        /\ StatusChangeSucceeds(i)

\* C5 amended: on a REJECTED listing every update_listing fails and changes
\* nothing, with ImmutableState when the caller is the owner and Forbidden
\* otherwise, and update_listing_status succeeds.
C5_RejectedRefusesEdits ==
    \A i \in Rows : listings[i].status = "REJECTED" =>
        /\ \A update_data \in ListingUpdate, seller_id \in UserIds :
               update_listing(listings, users, i, update_data, seller_id)
                   = Outcome(IF seller_id = listings[i].seller_id
                             THEN "ImmutableState" ELSE "Forbidden", listings)
        /\ StatusChangeSucceeds(i)

\* C5 witness: the owner's update of a REJECTED listing was refused.
C5_Witness ==
    /\ last.op = "update" /\ last.result = "ImmutableState"
    /\ \E i \in Rows : listings[i].status = "REJECTED"

\* Whether an update_listing by the owner of row i of ls succeeds.
OwnerCanEdit(ls, i) ==
    \E update_data \in ListingUpdate :
        update_listing(ls, users, i, update_data, ls[i].seller_id).result = "ok"

\* C6: only update_listing_status makes a REJECTED listing editable again:
\* no update, soft delete or upload leaves it in a state where an edit by
\* its owner succeeds.
C6_OnlyAdminUnlocksRejected ==
    [][\A i \in Rows :
          (listings[i].status = "REJECTED" /\ OwnerCanEdit(listings', i))
              => last'.op = "setStatus"]_vars

\* The transitions of the lifecycle state machine.
LifecycleTransitions ==
    {<<"PENDING", "ACTIVE">>, <<"PENDING", "REJECTED">>, <<"ACTIVE", "INACTIVE">>,
     <<"ACTIVE", "PENDING">>, <<"ACTIVE", "REJECTED">>, <<"REJECTED", "ACTIVE">>}

\* C7: every change of a listing's status is a transition of the lifecycle
\* state machine.
C7_OnlyLifecycleTransitions ==
    [][\A i \in Rows :
          listings'[i].status # listings[i].status
              => <<listings[i].status, listings'[i].status>> \in LifecycleTransitions]_vars

\* C8: INACTIVE is terminal: no operation changes the status of an INACTIVE
\* listing.
C8_InactiveIsTerminal ==
    [][\A i \in Rows :
          listings[i].status = "INACTIVE" => listings'[i].status = "INACTIVE"]_vars

\* C9: delete_listing by the owner succeeds from every status and sets
\* INACTIVE, changing nothing else; repeated, it succeeds again and leaves
\* the store as the first call left it.
C9_SoftDeleteIdempotent ==
    \A i \in Rows :
        LET first == delete_listing(listings, users, i, listings[i].seller_id)
            second == delete_listing(first.listings, users, i, listings[i].seller_id)
        IN  /\ first = Outcome("ok", [listings EXCEPT ![i].status = "INACTIVE"])
            /\ second = Outcome("ok", first.listings)

\* C9 witness: a delete succeeded on a listing that is INACTIVE and was
\* approved before.
C9_Witness ==
    /\ last.op = "delete" /\ last.result = "ok"
    /\ \E i \in Rows : /\ listings[i].status = "INACTIVE"
                      /\ listings[i].approved_by_admin_id # NoId

\* C10: update_listing, delete_listing and upload_listing_images called on
\* an existing listing with a seller_id that is not its owner's raise
\* Forbidden and change neither the store nor the external storage,
\* whoever the caller is.
C10_NonOwnerForbidden ==
    \A i \in Rows, seller_id \in UserIds : seller_id # listings[i].seller_id =>
        /\ \A update_data \in ListingUpdate :
               update_listing(listings, users, i, update_data, seller_id)
                   = Outcome("Forbidden", listings)
        /\ delete_listing(listings, users, i, seller_id) = Outcome("Forbidden", listings)
        /\ \A req \in AnyUpload :
               upload_listing_images(listings, users, s3, i, req[1], seller_id,
                                     req[2], req[3])
                   = [result |-> "Forbidden", listings |-> listings, s3 |-> s3]

\* C10 witness: an upload was refused as Forbidden on a listing that has
\* images, in a store where an admin is not the owner.
C10_Witness ==
    /\ last.op = "attach" /\ last.result = "Forbidden"
    /\ \E i \in Rows : /\ Len(listings[i].images) > 0
                      /\ \E u \in DOMAIN users : /\ users[u].role = "ADMIN"
                                                 /\ u # listings[i].seller_id

\* The ids of the admins.
Admins == {u \in DOMAIN users : users[u].role = "ADMIN"}

\* C11: update_listing_status with status ACTIVE on a PENDING listing, by
\* any admin, makes the listing ACTIVE and records that admin as approver;
\* get_listing_by_id with include_inactive then finds the listing, ACTIVE
\* and with that approver.
C11_ApprovalRecordsAdmin ==
    /\ \A i \in Rows, admin_id \in UserIds : listings[i].status = "PENDING" =>
           LET out == update_listing_status(listings, i, "ACTIVE", admin_id)
               read == get_listing_by_id(out.listings, i, TRUE)
           IN  /\ out.result = "ok"
               /\ read = i
               /\ out.listings[read].status = "ACTIVE"
               /\ out.listings[read].approved_by_admin_id = admin_id
               /\ out.listings[read].approved_by_admin_id # NoId
    /\ (last.op = "setStatus" /\ last.result = "ok") =>
           \A i \in Rows : listings[i].status = "ACTIVE" =>
               listings[i].approved_by_admin_id \in Admins

\* C11 witness: a status change succeeded and left a listing ACTIVE and
\* approved by an admin who is not its seller.
C11_Witness ==
    /\ last.op = "setStatus" /\ last.result = "ok"
    /\ \E i \in Rows : /\ listings[i].status = "ACTIVE"
                      /\ listings[i].approved_by_admin_id \in Admins
                      /\ listings[i].approved_by_admin_id # listings[i].seller_id

\* C12: update_listing_status raises NotFound and changes nothing for an id
\* that no listing has; for an existing listing it succeeds from every
\* status to every status, whoever the admin_id is, the owner or not, and
\* changes the status and the approver of that listing alone.
C12_StatusChangeUnguarded ==
    \A listing_id \in ListingIds, new_status \in ListingStatusEnum, admin_id \in UserIds :
        LET out == update_listing_status(listings, listing_id, new_status, admin_id)
        IN  IF listing_id \notin Rows
            THEN out = Outcome("NotFound", listings)
            ELSE /\ out.result = "ok"
                 /\ out.listings[listing_id].status = new_status
                 /\ \A i \in Rows \ {listing_id} : out.listings[i] = listings[i]

\* C12 witness: a status change was refused as NotFound while a listing
\* that is not ACTIVE exists.
C12_Witness ==
    /\ last.op = "setStatus" /\ last.result = "NotFound"
    /\ \E i \in Rows : listings[i].status \in {"REJECTED", "INACTIVE"}

\* C13: an update_listing that succeeds gives every field set in
\* update_data the value supplied and leaves every field not set, the
\* seller_id, the status, the approver and the images of the listing, and
\* every other listing, as they were.
C13_PartialUpdate ==
    \A i \in Rows, update_data \in ListingUpdate :
        LET out == update_listing(listings, users, i, update_data, listings[i].seller_id)
            old == listings[i]
            new == out.listings[i]
        IN  out.result = "ok" =>
                /\ new.title = IF update_data.title # NULL
                               THEN update_data.title ELSE old.title
                /\ new.category_id = IF update_data.category_id # NoId
                                     THEN update_data.category_id ELSE old.category_id
                /\ new.listing_type = IF update_data.listing_type # NULL
                                      THEN update_data.listing_type ELSE old.listing_type
                /\ new.seller_id = old.seller_id
                /\ new.images = old.images
                /\ new.status = old.status
                /\ new.approved_by_admin_id = old.approved_by_admin_id
                /\ new.title # NULL /\ new.category_id # NoId /\ new.listing_type # NULL
                /\ \A j \in Rows \ {i} : out.listings[j] = listings[j]

\* C13 witness: an update succeeded on a listing that has images and an
\* approver, and the listing carries the title only an update gives.
C13_Witness ==
    /\ last.op = "update" /\ last.result = "ok"
    /\ \E i \in Rows : /\ listings[i].title = "t2"
                      /\ listings[i].images # << >>
                      /\ listings[i].approved_by_admin_id # NoId

\* C14: update_listing raises NotFound for a missing listing, else
\* Forbidden for a caller who is not the owner, else ImmutableState for a
\* REJECTED listing, and succeeds otherwise; when it raises, the store is
\* the one it found.
C14_UpdateErrorOrder ==
    \A listing_id \in ListingIds, update_data \in ListingUpdate, seller_id \in UserIds :
        LET out == update_listing(listings, users, listing_id, update_data, seller_id)
        IN  IF listing_id \notin Rows
            THEN out = Outcome("NotFound", listings)
            ELSE IF listings[listing_id].seller_id # seller_id
            THEN out = Outcome("Forbidden", listings)
            ELSE IF listings[listing_id].status = "REJECTED"
            THEN out = Outcome("ImmutableState", listings)
            ELSE out.result = "ok"

\* C14 witness: an update of a REJECTED listing by a caller who is not its
\* owner was refused as Forbidden, and the listing kept its title.
C14_Witness ==
    /\ last.op = "update" /\ last.result = "Forbidden"
    /\ \A i \in Rows : listings[i].status = "REJECTED" /\ listings[i].title = "t1"
    /\ Rows # {}

\* The batches C15 ranges over: of every size up to one above the quota,
\* and batches holding a file that is no image.
QuotaUploads ==
    {<<Batch(n), 0, 0>> : n \in 0..(MaxImages + 1)}
        \cup {<<Append(Batch(n), "text/plain"), 0, 0>> : n \in {0, 4, 10}}

\* C15: upload_listing_images by the owner raises ImageQuotaExceeded
\* exactly when the images of the listing plus the files of the batch
\* exceed 10, and then leaves the store and the external storage as they
\* were.
C15_QuotaExceeded ==
    \A i \in Rows, req \in QuotaUploads :
        LET out == upload_listing_images(listings, users, s3, i, req[1],
                                         listings[i].seller_id, req[2], req[3])
        IN  /\ (out.result = "ImageQuotaExceeded")
                    <=> (Len(listings[i].images) + Len(req[1]) > 10)
            /\ out.result = "ImageQuotaExceeded" =>
                    out.listings = listings /\ out.s3 = s3

\* C15 witness: an upload was refused as ImageQuotaExceeded on a listing
\* that has six images, with six objects in the external storage.
C15_Witness ==
    /\ last.op = "attach" /\ last.result = "ImageQuotaExceeded"
    /\ \E i \in Rows : Len(listings[i].images) = 6
    /\ s3 = 6

\* C16: a listing never has more than 10 images, whatever the
\* interleaving of the upload_listing_images calls on it.
C16_AtMostTenImages ==
    \A i \in Rows : Len(listings[i].images) <= 10

\* The images of row i that are primary.
Primaries(i) == {k \in 1..Len(listings[i].images) : listings[i].images[k].is_primary}

\* C17: a listing that has images has exactly one primary image, whatever
\* the primary_index of the uploads that succeeded on it.
C17_ExactlyOnePrimary ==
    \A i \in Rows : listings[i].images # << >> => Cardinality(Primaries(i)) = 1

\* C18: a listing never has more than one primary image, whatever the
\* interleaving of the upload_listing_images calls on it.
C18_AtMostOnePrimary ==
    \A i \in Rows : Cardinality(Primaries(i)) <= 1

\* C19: an upload_listing_images that raises InvalidImageType has persisted
\* no image and has stored no file in the external storage.
C19_InvalidTypeStoresNothing ==
    [][(last'.op = "attach" /\ last'.result = "InvalidImageType")
          => (listings' = listings /\ s3' = s3)]_vars

\* C20: a token whose header parses and whose kid is the kid of no key of
\* the key set get_cognito_jwks returns (the cached one, when the cache
\* holds one) makes verify_cognito_token raise UnknownSigningKey; it never
\* returns claims for it, valid or not in every other respect.
C20_UnknownKeyRejected ==
    \A token \in Tokens :
        LET out == verify_cognito_token(jwks, idp, token)
        IN  /\ (token.wellformed /\ jwks.cached /\ token.kid \notin jwks.keys) =>
                    /\ out.result = "UnknownSigningKey"
                    /\ out.claims = NULL
                    /\ out.fetched = 0
            /\ (token.wellformed /\ out.result # "UpstreamUnavailable"
                    /\ token.kid \notin out.jwks.keys) =>
                    out.result = "UnknownSigningKey" /\ out.claims = NULL
            /\ out.result = "ok" => token.kid \in out.jwks.keys

\* C20 witness: a token with kid k2 was refused as UnknownSigningKey by a
\* cache that holds another key set, while Cognito serves k2.
C20_Witness ==
    /\ last = Served("verify", "k2", "UnknownSigningKey")
    /\ jwks.cached /\ "k2" \notin jwks.keys
    /\ "k2" \in idp.keys

\* C21: verify_cognito_token returns claims only for a token whose kid is
\* in the key set, whose signature verifies under that key, whose exp is
\* not past and whose iss and aud are the configured ones; a token that
\* fails one of these, the others holding or not, gets no claims.
C21_ClaimsOnlyIfAllChecksPass ==
    \A token \in Tokens :
        LET out == verify_cognito_token(jwks, idp, token)
            valid == /\ token.wellformed
                     /\ token.kid \in out.jwks.keys
                     /\ token.signer = token.kid
                     /\ ~token.expired
                     /\ token.iss_ok
                     /\ token.aud_ok
        IN  /\ out.result = "ok" => valid
            /\ ~valid => out.result # "ok" /\ out.claims = NULL
            /\ (valid /\ out.result # "UpstreamUnavailable") =>
                    out.result = "ok" /\ out.claims = token.sub

\* C21 witness: a token with a kid of the cached key set was refused as
\* InvalidToken, after the one fetch that filled the cache.
C21_Witness ==
    /\ last = Served("verify", "k1", "InvalidToken")
    /\ jwks.cached /\ "k1" \in jwks.keys
    /\ fetches = 1

\* The tokens jwt.decode refuses with the key set ks: their header parses,
\* their kid is in ks, and the signature, exp, iss or aud does not verify.
Refused(ks) ==
    {t \in Tokens : t.wellformed /\ t.kid \in ks /\ ~Decodes(t, t.kid)}

\* C22: two tokens that jwt.decode refuses, for whatever reasons, give the
\* caller the same outcome, InvalidToken, though the JWTError differs.
C22_OneInvalidTokenError ==
    \A t1 \in Tokens, t2 \in Tokens :
        LET out1 == verify_cognito_token(jwks, idp, t1)
            out2 == verify_cognito_token(jwks, idp, t2)
        IN  (out1.result # "UpstreamUnavailable"
                /\ t1 \in Refused(out1.jwks.keys) /\ t2 \in Refused(out2.jwks.keys)) =>
                    /\ out1 = out2
                    /\ out1.result = "InvalidToken"
                    /\ \E u1 \in Refused(out1.jwks.keys), u2 \in Refused(out1.jwks.keys) :
                           DecodeError(u1, u1.kid) # DecodeError(u2, u2.kid)

\* C22 witness: a token with kid k2 was refused as InvalidToken by a cache
\* that holds both keys.
C22_Witness ==
    /\ last = Served("verify", "k2", "InvalidToken")
    /\ jwks = Cached({"k1", "k2"})

\* C23: verify_cognito_token raises MalformedToken for a token whose header
\* does not parse, whatever the cache holds and whether the endpoint
\* answers or not.
C23_MalformedFirst ==
    \A token \in Tokens :
        ~token.wellformed =>
            verify_cognito_token(jwks, idp, token).result = "MalformedToken"

\* The payload verify_cognito_token returns for a token with subject sub.
Verified(sub) == [result |-> "ok", claims |-> sub]

\* The exceptions of verify_cognito_token.
VerifyErrors == {"UpstreamUnavailable", "MalformedToken", "UnknownSigningKey", "InvalidToken"}

\* C24: every get_current_user served, once the token has verified, raises
\* InvalidToken for a subject that is absent or no UUID, UnregisteredUser
\* for a subject no user has, AccountBlocked for the subject of a BLOCKED
\* user, AccountPending for that of a PENDING user, and returns the user
\* for the subject of an ACTIVE user and only for it; it leaves the users
\* table as it was.
C24_ResolveStrictGating ==
    /\ users = InitUsers
    /\ (last.op = "resolve" /\ last.result \notin VerifyErrors \ {"InvalidToken"}) =>
           LET sub == last.arg
               u == BySubject(users, sub)
           IN  /\ ~IsUuid(sub) => last.result = "InvalidToken"
               /\ (IsUuid(sub) /\ u = NoId) => last.result \in {"UnregisteredUser", "InvalidToken"}
               /\ (u # NoId /\ users[u].status = "BLOCKED") =>
                       last.result \in {"AccountBlocked", "InvalidToken"}
               /\ (u # NoId /\ users[u].status = "PENDING") =>
                       last.result \in {"AccountPending", "InvalidToken"}
               /\ (u # NoId /\ users[u].status = "ACTIVE") =>
                       last.result \in {"ok", "InvalidToken"}
               /\ last.result = "ok" => (u # NoId /\ users[u].status = "ACTIVE")

\* C25: the row get_current_user looks up for a subject is the user whose
\* cognito_sub is that subject, and a user it returns has the subject of
\* the token as cognito_sub.
C25_ResolvesBySubject ==
    \A sub \in Subjects :
        /\ IsUuid(sub) => FindUser(users, sub) = BySubject(users, sub)
        /\ \A binds \in BOOLEAN :
               LET out == get_current_user(users, Verified(sub), binds)
               IN  out.result = "ok" => users[out.user].cognito_sub = sub

\* The users of the table us whose cognito_sub is sub.
WithSubject(us, sub) == {u \in DOMAIN us : us[u].cognito_sub = sub}

C27_UniqueSubjectAndEmail ==
    /\ \A u \in DOMAIN users, v \in DOMAIN users : u # v =>
           /\ users[u].cognito_sub # users[v].cognito_sub
           /\ users[u].email # users[v].email
    /\ \A sub \in NewSubjects, email \in Emails :
           (\E u \in DOMAIN users : users[u].cognito_sub = sub \/ users[u].email = email) =>
               InsertUser(users, NewUser(sub, email))
                   = [result |-> "IntegrityError", users |-> users, user |-> NoId]

\* C27 witness: the commit of a user with a subject new to the table was
\* refused for its email, and the table has no user with that subject.
C27_Witness ==
    /\ last = Served("commitUser", "sub8", "IntegrityError")
    /\ WithSubject(users, "sub8") = {}
    /\ Len(users) > Len(InitUsers)

\* The guards, as recorded in last.op.
GuardOps == {"requireActive", "requireAdmin", "requireOwnerOrAdmin"}

\* C28: verify_resource_owner lets the user through exactly when the role
\* is ADMIN or the user_id is the resource owner's, for every role, status,
\* user_id and owner id, and raises Forbidden otherwise; a guard served
\* changes neither the users nor the listings.
C28_OwnerOrAdmin ==
    /\ [](\A current_user \in AnyUser, resource_owner_id \in UserIds :
            LET r == verify_resource_owner(resource_owner_id, current_user)
                allowed == \/ current_user.role = "ADMIN"
                           \/ current_user.user_id = resource_owner_id
            IN  /\ r = "ok" <=> allowed
                /\ r = "Forbidden" <=> ~allowed)
    /\ [][last'.op = "requireOwnerOrAdmin" =>
              (users' = users /\ listings' = listings)]_vars

\* C28 witness: a user with role USER was refused as Forbidden, and an
\* admin is in the table.
C28_Witness ==
    /\ last = Served("requireOwnerOrAdmin", "USER", "Forbidden")
    /\ Admins # {}
    /\ Len(users) > Len(InitUsers)

\* C29: require_admin lets the user through exactly when the role is
\* ADMIN and raises InsufficientRole otherwise: a user with role USER is
\* refused whatever the status.
C29_AdminOnly ==
    \A current_user \in AnyUser :
        LET r == require_admin(current_user)
        IN  /\ r = "ok" <=> current_user.role = "ADMIN"
            /\ r = "InsufficientRole" <=> current_user.role # "ADMIN"
            /\ (last.op = "requireAdmin" /\ last.arg = "USER") =>
                    last.result = "InsufficientRole"

\* C29 witness: require_admin refused a user with role USER.
C29_Witness == last = Served("requireAdmin", "USER", "InsufficientRole")

\* C30: once get_cognito_jwks has returned a key set, every later call
\* returns that key set and sends no request to the endpoint, whatever
\* keys Cognito serves by then and whether the endpoint answers or not.
C30_CachedAfterFirstFetch ==
    [][jwks.cached =>
          /\ jwks' = jwks
          /\ fetches' = fetches
          /\ get_cognito_jwks(jwks', idp')
                = [result |-> "ok", jwks |-> jwks, fetched |-> 0]]_vars

\* C30 witness: a token verified against the cached key set, with one
\* request sent in all, while the endpoint is down and serves other keys.
C30_Witness ==
    /\ last.op = "verify" /\ last.result = "ok"
    /\ jwks.cached /\ fetches = 1
    /\ ~idp.up /\ idp.keys # jwks.keys

\* C31: while the cache is empty and several requests call get_cognito_jwks
\* at once, at most one request to the JWKS endpoint is in flight.
C31_SingleFetchInFlight ==
    Cardinality(InFlight) <= 1

\* C32: a fetch that finds the endpoint unreachable fails with
\* UpstreamUnavailable and leaves the cache empty, and a call on an empty
\* cache sends a fresh request, which succeeds and is cached as soon as the
\* endpoint answers.
C32_FailureNotCached ==
    /\ [](last.op = "verify" /\ last.result = "UpstreamUnavailable" => jwks = NoJwks)
    /\ [][fetches' # fetches =>
            /\ ~jwks.cached /\ fetches' = fetches + 1
            /\ IF idp.up
               THEN jwks' = Cached(idp.keys) /\ last'.result # "UpstreamUnavailable"
               ELSE jwks' = NoJwks /\ last'.result = "UpstreamUnavailable"]_vars
    /\ [](~jwks.cached =>
            \A token \in Tokens :
                verify_cognito_token(jwks, idp, token).fetched = 1
                /\ (verify_cognito_token(jwks, idp, token).result = "UpstreamUnavailable")
                        = ~idp.up)

\* A verification succeeds on the second request sent: the first fetch
\* failed and was not remembered.
C32_Witness ==
    /\ last.op = "verify" /\ last.result = "ok"
    /\ jwks.cached /\ fetches = 2

\* The tokens Cognito issues with one of the keys it serves now, a key that
\* the cached key set does not hold.
SignedWithNewKey ==
    {token \in Tokens : /\ token.wellformed
                        /\ token.kid = token.signer
                        /\ token.kid \in idp.keys \ jwks.keys}

\* C37: a cached key set is never replaced, and once Cognito has rotated to
\* a key that is not in it, every token signed with the new key is refused
\* with UnknownSigningKey, without a request to the endpoint.
C37_NoRefreshAfterRotation ==
    /\ [][jwks.cached => jwks' = jwks /\ fetches' = fetches]_vars
    /\ [](jwks.cached =>
            \A token \in SignedWithNewKey :
                LET out == verify_cognito_token(jwks, idp, token)
                IN  /\ out.result = "UnknownSigningKey"
                    /\ out.fetched = 0
                    /\ out.jwks = jwks)
    /\ [][(jwks.cached /\ idp' = idp /\ last' # last /\ last'.arg \in idp.keys \ jwks.keys)
            => last'.result = "UnknownSigningKey"]_vars

\* A token of the only key Cognito serves after a rotation was refused,
\* with the key set fetched before the rotation still cached and the
\* endpoint answering.
C37_Witness ==
    /\ last = Served("verify", "k2", "UnknownSigningKey")
    /\ jwks = Cached({"k1"}) /\ idp = [keys |-> {"k2"}, up |-> TRUE]
    /\ fetches = 1

\* The listing ids on a page of get_public_listings.
OnPage(filters, page, page_size) ==
    LET out == get_public_listings(listings, filters, page, page_size)
    IN  {out.listings[k] : k \in 1..Len(out.listings)}

\* C34: get_listing_by_id without include_inactive finds a listing exactly
\* when it is ACTIVE; every page of get_public_listings holds ACTIVE listings
\* only, and its unfiltered first page holds every ACTIVE listing.
C34_PublicReadsOnlyActive ==
    /\ \A i \in ListingIds :
           get_listing_by_id(listings, i, FALSE)
               = IF i \in Rows /\ listings[i].status = "ACTIVE" THEN i ELSE NoId
    /\ \A filters \in ListingFilters, page \in 1..2, page_size \in {1, DefaultPageSize} :
           /\ \A i \in OnPage(filters, page, page_size) :
                  i \in Rows /\ listings[i].status = "ACTIVE"
           /\ get_public_listings(listings, filters, page, page_size).total
                  = Cardinality({i \in Rows : /\ listings[i].status = "ACTIVE"
                                              /\ _apply_filters(listings[i], filters)})
    /\ OnPage(NoFilters, 1, DefaultPageSize)
           = {i \in Rows : listings[i].status = "ACTIVE"}

\* A listing that was approved and then deleted by its seller: it is
\* INACTIVE and neither public read returns it.
C34_Witness ==
    /\ last = Served("delete", NULL, "ok")
    /\ \E i \in Rows : /\ listings[i].status = "INACTIVE"
                      /\ listings[i].approved_by_admin_id # NoId
                      /\ get_listing_by_id(listings, i, FALSE) = NoId
                      /\ get_listing_by_id(listings, i, TRUE) = i
                      /\ i \notin OnPage(NoFilters, 1, DefaultPageSize)

\* C38: a listing that is ACTIVE has an approver, and the approver is the
\* admin_id of the last update_listing_status call that made the listing
\* ACTIVE.
C38_ActiveHasLastApprover ==
    \A i \in Rows : listings[i].status = "ACTIVE" =>
        /\ listings[i].approved_by_admin_id # NoId
        /\ listings[i].approved_by_admin_id = approvals[i]

\* A listing approved by admin 2, deleted by its seller and made ACTIVE
\* again by admin 3, which is its approver now.
C38_Witness ==
    /\ last = Served("setStatus", NULL, "ok")
    /\ \E i \in Rows : /\ listings[i].status = "ACTIVE"
                      /\ listings[i].approved_by_admin_id = 3
                      /\ listings[i].images # << >>
                      /\ listings[i].title = "t2"

\* The columns of a listing row that the commits of update_listing,
\* delete_listing and update_listing_status write.
ContentOf(row) == <<row.title, row.category_id, row.listing_type>>

\* C33: whenever the table changes, one operation committed: a create
\* inserted one whole row, or one pending operation wrote every column it
\* changed, on its row alone, in that one step.
C33_AtomicCommit ==
    [][listings' # listings =>
        \/ /\ Len(listings') = Len(listings) + 1
           /\ SubSeq(listings', 1, Len(listings)) = listings
           /\ last' = Served("create", NULL, "ok")
        \/ \E w \in Workers :
              LET id == txn[w].listing_id
                  writes == txn[w].writes
              IN  /\ txn[w].pc = "pending" /\ txn'[w] = NoTxn
                  /\ Len(listings') = Len(listings)
                  /\ \A i \in Rows \ {id} : listings'[i] = listings[i]
                  /\ writes.title # NULL => listings'[id].title = writes.title
                  /\ writes.category_id # NoId =>
                         listings'[id].category_id = writes.category_id
                  /\ writes.listing_type # NULL =>
                         listings'[id].listing_type = writes.listing_type
                  /\ writes.status # NULL => listings'[id].status = writes.status
                  /\ writes.approved_by_admin_id # NoId =>
                         listings'[id].approved_by_admin_id = writes.approved_by_admin_id
                  /\ listings'[id].images = listings[id].images
                  /\ listings'[id].seller_id = listings[id].seller_id]_vars

\* An update of three columns committed on a listing that a delete_listing,
\* begun before that commit, is about to write: the row holds the three new
\* values.
C33_Witness ==
    /\ last = Served("update", NULL, "ok")
    /\ \E w \in Workers : /\ txn[w].pc = "pending" /\ txn[w].op = "delete"
                         /\ ContentOf(listings[txn[w].listing_id])
                                = <<"t2", 2, "PRODUCT">>

\* C36: no commit changes the title, the category or the type of a listing
\* whose committed status is REJECTED.
C36_NoEditOnceRejected ==
    [][\A i \in Rows : listings[i].status = "REJECTED" =>
            ContentOf(listings'[i]) = ContentOf(listings[i])]_vars

\* C35: every verify_cognito_token call that has sent a request to the JWKS
\* endpoint returns or raises; one whose request gets no answer raises the
\* error of the unavailable endpoint when the timeout runs out.
C35_VerifyCompletes ==
    \A w \in Workers : (verifying[w].pc # "idle") ~> (verifying[w].pc = "idle")

\* A call whose request got no answer ended with UpstreamUnavailable while
\* the call of another thread is still waiting for its answer.
C35_Witness ==
    /\ last.op = "timeout" /\ last.result = "UpstreamUnavailable"
    /\ \E w \in Workers : verifying[w].pc = "idle"
    /\ \E w \in Workers : verifying[w].pc = "waiting"
    /\ ~jwks.cached

\* C39: every row that passes the status checks of get_current_user is
\* ACTIVE, so get_current_active_user never fails behind it; the chain ends
\* in require_admin granting access exactly for a row that is ACTIVE and
\* ADMIN, and an admin that is BLOCKED or PENDING is refused by the status
\* checks, before the role is looked at.
C39_AdminOnlyWhenActive ==
    /\ \A user \in AnyUser :
           /\ StatusGate(user) = "ok" =>
                  user.status = "ACTIVE" /\ get_current_active_user(user) = "ok"
           /\ require_admin_chain(user) # "AccountInactive"
           /\ (require_admin_chain(user) = "ok")
                  = (user.status = "ACTIVE" /\ user.role = "ADMIN")
           /\ (user.role = "ADMIN" /\ user.status # "ACTIVE") =>
                  require_admin_chain(user) \in {"AccountBlocked", "AccountPending"}
    /\ last.op \in {"adminRequest", "adminChain"} => last.result # "AccountInactive"
    /\ last.op = "adminRequest" /\ last.result = "ok" =>
           \E u \in DOMAIN users : /\ users[u].cognito_sub = last.arg
                                   /\ users[u].status = "ACTIVE"
                                   /\ users[u].role = "ADMIN"

\* A BLOCKED admin was refused by the status checks of get_current_user.
C39_Witness ==
    last = Served("adminChain", "ADMIN", "AccountBlocked")

=============================================================================
